---- MODULE Spec2Model ----
(***************************************************************************)
(* flask_tryton: the Tryton.transaction decorator (transaction scope,      *)
(* retry on DatabaseOperationalError, translation of domain errors into    *)
(* BadRequest, draining of the transaction's tasks) and the record /       *)
(* records URL converters.                                                 *)
(*                                                                         *)
(* The ORM runtime (trytond) and the request provider (flask) are the      *)
(* environment: the handler's outcome, the tasks it queues, the outcome of *)
(* run_task, the current request and the thread's current transaction      *)
(* (what Transaction() returns) are chosen nondeterministically.           *)
(***************************************************************************)
EXTENDS Integers, Sequences, FiniteSets, TLC

\* ---------------------------------------------------------------- bounds
MaxRetry == 1      \* largest value of config.getint('database', 'retry')
MaxTasks == 2      \* tasks the handler bodies of one behaviour may queue
MaxCalls == 2      \* invocations of the wrapped handler in one behaviour
MaxLen   == 5      \* characters of a URL segment given to a converter

\* ---------------------------------------------------------------- values
None == "None"

Empty == [k \in {} |-> ""]

\* dict.update(other)
Update(m, n) ==
    [k \in (DOMAIN m) \cup (DOMAIN n) |-> IF k \in DOMAIN n THEN n[k] ELSE m[k]]

WriteMethods == {"PUT", "POST", "DELETE", "PATCH"}

Methods == WriteMethods \cup {"GET", "HEAD"}

NoRequest == [present |-> FALSE, method |-> None, remote_addr |-> None,
              http_host |-> None, scheme |-> None, is_secure |-> FALSE]

Request(m, secure) ==
    [present |-> TRUE, method |-> m,
     remote_addr |-> IF secure THEN "10.0.0.2" ELSE "10.0.0.1",
     http_host |-> IF secure THEN "pay.example" ELSE "shop.example",
     scheme |-> IF secure THEN "https" ELSE "http",
     is_secure |-> secure]

\* every method, over http
Requests == {NoRequest} \cup {Request(m, FALSE) : m \in Methods}

\* a reading and a writing request
SomeRequests == {NoRequest, Request("GET", FALSE), Request("POST", TRUE)}

DomainErrors == {"UserError", "UserWarning", "ConcurrencyException"}

Messages == {"denied", "stale"}

Ok == [kind |-> "ok", message |-> ""]

Error(kind, message) == [kind |-> kind, message |-> message]

\* what one execution of the handler body may do
HandlerOutcomes ==
    {Ok, Error("DatabaseOperationalError", ""), Error("KeyError", "")}
    \cup {Error(k, m) : k \in DomainErrors, m \in Messages}

\* what one call of run_task may do
TaskOutcomes == {Ok, Error("DatabaseOperationalError", ""), Error("KeyError", "")}

Plain(v) == [t |-> "plain", model |-> None, ids |-> <<v>>]

\* _RecordProxy(model, id) and _RecordsProxy(model, ids)
RecordProxy(model, id) == [t |-> "_RecordProxy", model |-> model, ids |-> <<id>>]

RecordsProxy(model, ids) == [t |-> "_RecordsProxy", model |-> model, ids |-> ids]

IsProxy(value) == value.t \in {"_RecordProxy", "_RecordsProxy"}

\* _RecordsProxy.__call__: Model.browse(self.ids); _RecordProxy.__call__: [0] of it
Materialize(value) ==
    IF value.t = "_RecordProxy"
    THEN [t |-> "record", model |-> value.model, ids |-> <<value.ids[1]>>]
    ELSE [t |-> "records", model |-> value.model, ids |-> value.ids]

\* (args, kwargs) of an invocation
Arguments ==
    { [args |-> <<>>, kwargs |-> Empty],
      [args |-> <<Plain(7), RecordsProxy("res.user", <<3, 5, 9>>)>>,
       kwargs |-> [user |-> RecordProxy("res.user", 42)]],
      [args |-> <<RecordProxy("res.user", 42)>>,
       kwargs |-> [page |-> Plain(2)]] }

NoArguments == {[args |-> <<>>, kwargs |-> Empty]}

\* ---------------------------------------------------------------- state
VARIABLES
    app,          \* config: testing_flask, database_retry, version, TRYTON_USER
    deco,         \* Tryton.transaction(readonly, user, context) and the callback
    heap,         \* the dict objects the context merge reads and writes
    cur,          \* the thread's current transaction, what Transaction() returns
    request,      \* flask.request of the invocation
    args, kwargs, \* arguments of the invocation
    pc,           \* position of the invocation
    count,        \* loop variable of retry_transaction.wrapper
    scope,        \* locals of the attempt: transaction_user, is_readonly, ...
    err,          \* the exception in flight
    signal,       \* what the caller observes: the result or the exception
    log,          \* what a recording ORM runtime saw during the invocation
    calls,        \* invocations made
    next_task,    \* task ids handed out
    conv          \* a URL segment on its way through a converter and back

vars == <<app, deco, heap, cur, request, args, kwargs, pc, count, scope, err,
          signal, log, calls, next_task, conv>>

\* user of a Transaction() that was never started, and user=None of the decorator
NoUser == -1

\* Python truth value of a user id
Truthy(user) == user # NoUser /\ user # 0

\* a decorator argument is a value or a zero-argument producer of a value
callable(value) == value \in {"lambda: True", "lambda: False"}

get_value(value) ==
    IF callable(value)
    THEN (IF value = "lambda: True" THEN "True" ELSE "False")
    ELSE value

\* Tryton._readonly
_readonly(req) == ~(req.present /\ req.method \in WriteMethods)

\* the dict built from the request, {} without a request
RequestFields(req) ==
    IF req.present
    THEN [remote_addr |-> req.remote_addr, http_host |-> req.http_host,
          scheme |-> req.scheme, is_secure |-> req.is_secure]
    ELSE Empty

\* what the context callback returns
CallbackDict == [language |-> "fr"]

\* context of a transaction the tests started themselves
AmbientContext == [language |-> "en"]

NoScope == [transaction_user |-> NoUser, is_readonly |-> TRUE,
            transaction_context |-> None, transaction |-> None, result |-> None]

NoError == Error("none", "")

NewLog(leftover) ==
    [executions |-> 0, attempts |-> 0, conflicts |-> 0, commits |-> 0,
     submitted |-> <<>>, queued |-> <<>>, leftover |-> leftover,
     materialized |-> {}, received_args |-> <<>>, received_kwargs |-> Empty,
     raised |-> NoError, cache |-> <<>>, attempt_commits |-> 0,
     on_queue |-> <<>>, drained |-> <<>>,
     task_failed |-> FALSE, reruns |-> 0, recommits |-> 0, entered |-> <<>>,
     ran_in |-> [user |-> NoUser, readonly |-> FALSE, context |-> Empty]]

Transactions ==
    { [started |-> FALSE, user |-> NoUser, readonly |-> FALSE,
       has_cursor |-> FALSE, context |-> Empty, tasks |-> <<>>] } \cup
    { [started |-> TRUE, user |-> u, readonly |-> r,
       has_cursor |-> c, context |-> AmbientContext, tasks |-> <<>>]
        : u \in {0, 1}, r \in BOOLEAN, c \in BOOLEAN }

NoSegment == [step |-> "none", converter |-> None, segment |-> <<>>,
              proxy |-> Plain(0), url |-> <<>>]

\* the state after construction, the configuration drawn from the given sets
InitOver(Apps, Decos, Segments) ==
    /\ app \in Apps
    /\ deco \in Decos
    /\ heap = [cb |-> CallbackDict,
               ctx |-> IF deco.context = "nested"
                       THEN [company |-> "1", _request |-> "ctxreq"]
                       ELSE [company |-> "1"],
               ctxreq |-> [remote_addr |-> "spoofed"],
               tc |-> Empty,
               tcreq |-> Empty]
    /\ cur \in Transactions
    /\ request = NoRequest
    /\ args = <<>>
    /\ kwargs = Empty
    /\ pc = "idle"
    /\ count = 0
    /\ scope = NoScope
    /\ err = NoError
    /\ signal = NoError
    /\ log = NewLog(<<>>)
    /\ calls = 0
    /\ next_task = 0
    /\ conv \in Segments

\* every retry count, testing mode and current transaction; a plain decorator
Init ==
    InitOver([testing_flask : BOOLEAN, database_retry : 0..MaxRetry,
              old_version : BOOLEAN, TRYTON_USER : {0}],
             [readonly : {None, "True", "False"}, user : {NoUser},
              context : {None}, callback : {None}],
             {NoSegment})

\* every decorator configuration; one retry
InitConfig ==
    InitOver([testing_flask : BOOLEAN, database_retry : {1},
              old_version : {FALSE}, TRYTON_USER : {0, 1}],
             [readonly : {None, "True", "False", "lambda: True", "lambda: False"},
              user : {NoUser, 2},
              context : {None, "plain", "nested"},
              callback : {None, "fresh", "shared"}],
             {NoSegment})

\* ---------------------------------------------------------------- helpers
\* mutant: the running transaction is used outside testing mode as well
need_new_transaction_both == ~app.testing_flask /\ ~Truthy(cur.user)

\* mutant: whether a transaction is running is not tested
need_new_transaction_untested == ~app.testing_flask

\* conditional_transaction_for_tests: whether it starts a transaction of its own
need_new_transaction == ~app.testing_flask \/ ~Truthy(cur.user)

\* conditional_transaction_for_tests: entering the scope. A new transaction is
\* started from the names database and user, which neither the function nor
\* the module binds: NameError. Otherwise the current transaction is yielded.
EnterScope ==
    IF need_new_transaction THEN Error("NameError", "") ELSE Ok

\* the resolved user of the attempt
ResolveUser ==
    IF deco.user = NoUser THEN app.TRYTON_USER ELSE deco.user

\* the resolved readonly flag of the attempt
ResolveReadonly(req) ==
    IF deco.readonly = None THEN _readonly(req)
    ELSE get_value(deco.readonly) = "True"

\* the object transaction_context names after the callback was asked
ContextRef == IF deco.callback = "shared" THEN "cb" ELSE "tc"

\* the heap after the context merge of one attempt
MergeContext(h, req) ==
    LET h1 == IF deco.callback = "shared" THEN h
              ELSE [h EXCEPT !["tc"] =
                        IF deco.callback = "fresh" THEN CallbackDict ELSE Empty]
        h2 == IF deco.callback # None \/ deco.context # None
              THEN [h1 EXCEPT ![ContextRef] =
                        Update(@, IF deco.context = None THEN Empty ELSE h1["ctx"])]
              ELSE h1
        has == "_request" \in DOMAIN h2[ContextRef]
        ref == IF has THEN h2[ContextRef]["_request"] ELSE "tcreq"
        h3 == IF has THEN h2
              ELSE [h2 EXCEPT ![ContextRef] = Update(@, [_request |-> "tcreq"]),
                              !["tcreq"] = Empty]
    IN  [h3 EXCEPT ![ref] = Update(@, RequestFields(req))]

\* the value of a context dict, its nested _request dict included
ContextValue(h, ref) ==
    [k \in DOMAIN h[ref] |-> IF k = "_request" THEN h[h[ref][k]] ELSE h[ref][k]]

\* mutant: the reference is handed over as it is
instanciate_unresolved(value) == value

instanciate(value) == IF IsProxy(value) THEN Materialize(value) ELSE value

\* mutant: BadRequest built from the type of the error
BadRequest_of_type(e) == Error("BadRequest", e.kind)

\* raise BadRequest(e.message)
BadRequest(e) == Error("BadRequest", e.message)

\* mutant: every exception but the operational one becomes BadRequest
Translate_every(e) ==
    IF e.kind = "DatabaseOperationalError" THEN e ELSE BadRequest(e)

\* the except clauses of the wrapper: what leaves the with block
Translate(e) ==
    IF e.kind = "DatabaseOperationalError" THEN e
    ELSE IF e.kind \in DomainErrors THEN BadRequest(e)
    ELSE e

\* mutant: nothing is committed
ShouldCommit_never(transaction, is_readonly) == FALSE

\* mutant: the resolved readonly flag is not looked at
ShouldCommit_any(transaction, is_readonly) == transaction.has_cursor

\* if hasattr(transaction, 'cursor') and not is_readonly
ShouldCommit(transaction, is_readonly) == transaction.has_cursor /\ ~is_readonly

\* mutant: the loop continues for a readonly transaction only
ShouldRetry_readonly(e, cnt, transaction) ==
    e.kind = "DatabaseOperationalError" /\ cnt # 0 /\ transaction.readonly

\* mutant: the last retry is not taken
ShouldRetry_short(e, cnt, transaction) ==
    e.kind = "DatabaseOperationalError" /\ cnt > 1 /\ ~transaction.readonly

\* mutant: the loop variable is not looked at
ShouldRetry_forever(e, cnt, transaction) ==
    e.kind = "DatabaseOperationalError" /\ ~transaction.readonly

\* mutant: the loop continues after any exception
ShouldRetry_any(e, cnt, transaction) == cnt # 0 /\ ~transaction.readonly

\* retry_transaction: whether the loop continues after the exception e
ShouldRetry(e, cnt, transaction) ==
    e.kind = "DatabaseOperationalError" /\ cnt # 0 /\ ~transaction.readonly

\* mutant: tasks.pop(0)
PopTask_first(tasks) == [task |-> tasks[1], rest |-> SubSeq(tasks, 2, Len(tasks))]

\* transaction.tasks.pop(): the task taken and the tasks left
PopTask(tasks) == [task |-> tasks[Len(tasks)], rest |-> SubSeq(tasks, 1, Len(tasks) - 1)]

ProxiesOf(a, kw) ==
    {a[i] : i \in {j \in DOMAIN a : IsProxy(a[j])}}
    \cup {kw[n] : n \in {m \in DOMAIN kw : IsProxy(kw[m])}}

\* ---------------------------------------------------------------- actions
\* the caller invokes the wrapped handler: retry_transaction.wrapper starts
Call(req, a) ==
    /\ pc \in {"idle", "returned", "raised"}
    /\ calls < MaxCalls
    /\ calls' = calls + 1
    /\ request' = req
    /\ args' = a.args
    /\ kwargs' = a.kwargs
    /\ count' = app.database_retry
    /\ pc' = "attempt"
    /\ scope' = NoScope
    /\ err' = NoError
    /\ signal' = NoError
    /\ log' = NewLog(cur.tasks)
    /\ UNCHANGED <<app, deco, heap, cur, next_task, conv>>

\* Tryton.transaction wrapper up to the entry of the with block
Prepare ==
    /\ pc = "attempt"
    /\ IF EnterScope.kind # "ok"
       THEN /\ err' = EnterScope
            /\ pc' = "caught"
            /\ scope' = NoScope
            /\ log' = [log EXCEPT !.attempts = @ + 1, !.raised = NoError,
                                   !.attempt_commits = 0, !.drained = <<>>]
            /\ UNCHANGED heap
       ELSE /\ heap' = MergeContext(heap, request)
            /\ scope' = [transaction_user |-> ResolveUser,
                         is_readonly |-> ResolveReadonly(request),
                         transaction_context |-> ContextRef,
                         transaction |-> "current",
                         result |-> None]
            /\ log' = [log EXCEPT
                         !.attempts = @ + 1,
                         !.raised = NoError,
                         !.attempt_commits = 0,
                         !.drained = <<>>,
                         !.entered = Append(@, "current"),
                         !.cache = IF app.old_version THEN Append(@, "clean") ELSE @]
            /\ pc' = "open"
            /\ err' = NoError
    /\ UNCHANGED <<app, deco, cur, request, args, kwargs, count, signal, calls,
                   next_task, conv>>

\* the with block: the arguments, the handler body, the commit, the excepts
RunHandler(outcome, k) ==
    /\ pc = "open"
    /\ next_task + k <= MaxTasks
    /\ next_task' = next_task + k
    /\ LET new == [i \in 1..k |-> next_task + i]
           committed == outcome.kind = "ok" /\ ShouldCommit(cur, scope.is_readonly)
       IN  /\ cur' = [cur EXCEPT !.tasks = @ \o new]
           /\ log' = [log EXCEPT
                        !.executions = @ + 1,
                        !.conflicts = IF outcome.kind = "DatabaseOperationalError"
                                      THEN @ + 1 ELSE @,
                        !.commits = IF committed THEN @ + 1 ELSE @,
                        !.attempt_commits = IF committed THEN @ + 1 ELSE @,
                        !.queued = @ \o new,
                        !.on_queue = cur.tasks \o new,
                        !.drained = <<>>,
                        !.reruns = IF log.task_failed THEN @ + 1 ELSE @,
                        !.recommits = IF log.task_failed /\ committed
                                      THEN @ + 1 ELSE @,
                        !.materialized = @ \cup
                            {[value |-> v, in_transaction |-> cur.started]
                                : v \in ProxiesOf(args, kwargs)},
                        !.received_args = [i \in DOMAIN args |-> instanciate(args[i])],
                        !.received_kwargs =
                            [n \in DOMAIN kwargs |-> instanciate(kwargs[n])],
                        !.raised = IF outcome.kind = "ok" THEN NoError ELSE outcome,
                        !.ran_in = [user |-> cur.user, readonly |-> cur.readonly,
                                    context |-> cur.context],
                        !.cache = IF outcome.kind = "ok" /\ app.old_version
                                  THEN Append(@, "resets") ELSE @]
    /\ IF outcome.kind = "ok"
       THEN /\ pc' = "drain"
            /\ scope' = [scope EXCEPT !.result = "result"]
            /\ err' = NoError
       ELSE /\ pc' = "caught"
            /\ err' = Translate(outcome)
            /\ UNCHANGED scope
    /\ UNCHANGED <<app, deco, heap, request, args, kwargs, count, signal, calls,
                   conv>>

\* one turn of the loop over transaction.tasks
Drain(outcome) ==
    /\ pc = "drain"
    /\ cur.tasks # <<>>
    /\ cur' = [cur EXCEPT !.tasks = PopTask(cur.tasks).rest]
    /\ log' = [log EXCEPT
                 !.submitted = Append(@, PopTask(cur.tasks).task),
                 !.drained = Append(@, PopTask(cur.tasks).task),
                 !.task_failed = @ \/ outcome.kind # "ok",
                 !.conflicts = IF outcome.kind = "DatabaseOperationalError"
                               THEN @ + 1 ELSE @]
    /\ IF outcome.kind = "ok"
       THEN UNCHANGED <<pc, err>>
       ELSE pc' = "caught" /\ err' = outcome
    /\ UNCHANGED <<app, deco, heap, request, args, kwargs, count, scope, signal,
                   calls, next_task, conv>>

\* return result
Return ==
    /\ pc = "drain"
    /\ cur.tasks = <<>>
    /\ pc' = "returned"
    /\ signal' = [kind |-> "return", message |-> scope.result]
    /\ UNCHANGED <<app, deco, heap, cur, request, args, kwargs, count, scope, err,
                   log, calls, next_task, conv>>

\* retry_transaction.wrapper: the except clause of the loop
Catch ==
    /\ pc = "caught"
    /\ IF ShouldRetry(err, count, cur)
       THEN /\ count' = count - 1
            /\ pc' = "attempt"
            /\ err' = NoError
            /\ UNCHANGED signal
       ELSE /\ pc' = "raised"
            /\ signal' = err
            /\ UNCHANGED <<count, err>>
    /\ UNCHANGED <<app, deco, heap, cur, request, args, kwargs, scope, log, calls,
                   next_task, conv>>

Next ==
    \/ \E req \in SomeRequests, a \in NoArguments : Call(req, a)
    \/ Prepare
    \/ \E outcome \in HandlerOutcomes, k \in 0..MaxTasks : RunHandler(outcome, k)
    \/ \E outcome \in TaskOutcomes : Drain(outcome)
    \/ Return
    \/ Catch

Spec == Init /\ [][Next]_vars

\* every request method and argument list; handlers that succeed or are refused
NextConfig ==
    \/ \E req \in Requests, a \in Arguments : Call(req, a)
    \/ Prepare
    \/ \E outcome \in {Ok, Error("UserError", "denied")}, k \in 0..1 :
          RunHandler(outcome, k)
    \/ Drain(Ok)
    \/ Return
    \/ Catch

SpecConfig == InitConfig /\ [][NextConfig]_vars

\* ---------------------------------------------------------------- converters
\* a string is a sequence of characters
DigitChars == <<"0", "1", "2", "3", "4", "5", "6", "7", "8", "9">>

IsDigit(c) == \E i \in DOMAIN DigitChars : DigitChars[i] = c

DigitValue(c) == (CHOOSE i \in DOMAIN DigitChars : DigitChars[i] = c) - 1

\* int(text) of a string of digits
RECURSIVE int(_)
int(text) ==
    IF text = <<>> THEN 0
    ELSE int(SubSeq(text, 1, Len(text) - 1)) * 10 + DigitValue(text[Len(text)])

\* str(n) of an integer that is not negative
RECURSIVE str(_)
str(n) ==
    IF n < 10 THEN <<DigitChars[n + 1]>>
    ELSE str(n \div 10) \o <<DigitChars[(n % 10) + 1]>>

\* text.split(',')
RECURSIVE split(_)
split(text) ==
    IF \A i \in DOMAIN text : text[i] # ","
    THEN <<text>>
    ELSE LET i == CHOOSE j \in DOMAIN text :
                      text[j] = "," /\ \A l \in 1..(j - 1) : text[l] # ","
         IN  <<SubSeq(text, 1, i - 1)>> \o split(SubSeq(text, i + 1, Len(text)))

\* mutant: the parts put together without the separator
RECURSIVE join_bare(_)
join_bare(parts) ==
    IF parts = <<>> THEN <<>> ELSE parts[1] \o join_bare(Tail(parts))

\* ','.join(parts)
RECURSIVE join(_)
join(parts) ==
    IF parts = <<>> THEN <<>>
    ELSE IF Len(parts) = 1 THEN parts[1]
    ELSE parts[1] \o <<",">> \o join(Tail(parts))

\* RecordConverter.regex, matched against the whole segment
RecordRegex(text) == text # <<>> /\ \A i \in DOMAIN text : IsDigit(text[i])

\* RecordsConverter.regex, matched against the whole segment
RecordsRegex(text) ==
    /\ text # <<>>
    /\ \A i \in DOMAIN text : IsDigit(text[i]) \/ text[i] = ","
    /\ text[1] # ","
    /\ text[Len(text)] # ","
    /\ \A i \in 1..(Len(text) - 1) : ~(text[i] = "," /\ text[i + 1] = ",")

RecordConverter_to_python(model, value) == RecordProxy(model, int(value))

\* str(int(value)): int of a _RecordProxy is its first id
RecordConverter_to_url(value) == str(value.ids[1])

RecordsConverter_to_python(model, value) ==
    LET parts == split(value)
    IN  RecordsProxy(model, [i \in DOMAIN parts |-> int(parts[i])])

\* mutant: the ids written without the separator
RecordsConverter_to_url_bare(value) ==
    join_bare([i \in DOMAIN value.ids |-> str(value.ids[i])])

\* ','.join(map(str, map(int, value))): iterating a proxy gives its ids
RecordsConverter_to_url(value) ==
    join([i \in DOMAIN value.ids |-> str(value.ids[i])])

Alphabet == {"0", "3", "4", "5", "9", ","}

RECURSIVE Strings(_)
Strings(n) ==
    IF n = 0 THEN {<<>>}
    ELSE LET shorter == Strings(n - 1)
         IN  shorter \cup {Append(t, c) : t \in {u \in shorter : Len(u) = n - 1},
                                           c \in Alphabet}

\* a request path holds a segment for a rule with a record or records converter
InitConv ==
    /\ InitOver([testing_flask : {TRUE}, database_retry : {0},
                 old_version : {FALSE}, TRYTON_USER : {0}],
                [readonly : {None}, user : {NoUser}, context : {None},
                 callback : {None}],
                {[NoSegment EXCEPT !.step = "segment", !.converter = c,
                                   !.segment = text]
                    : c \in {"record", "records"}, text \in Strings(MaxLen)})
    /\ cur.started /\ cur.user = 1 /\ ~cur.readonly /\ ~cur.has_cursor

\* the URL map matches the segment and the converter parses it
ToPython ==
    /\ conv.step = "segment"
    /\ IF conv.converter = "record"
       THEN /\ RecordRegex(conv.segment)
            /\ conv' = [conv EXCEPT
                          !.step = "python",
                          !.proxy = RecordConverter_to_python("res.user", conv.segment)]
       ELSE /\ RecordsRegex(conv.segment)
            /\ conv' = [conv EXCEPT
                          !.step = "python",
                          !.proxy = RecordsConverter_to_python("res.user", conv.segment)]
    /\ UNCHANGED <<app, deco, heap, cur, request, args, kwargs, pc, count, scope,
                   err, signal, log, calls, next_task>>

\* the parsed reference is written back into a URL
ToUrl ==
    /\ conv.step = "python"
    /\ conv' = [conv EXCEPT
                  !.step = "url",
                  !.url = IF conv.converter = "record"
                          THEN RecordConverter_to_url(conv.proxy)
                          ELSE RecordsConverter_to_url(conv.proxy)]
    /\ UNCHANGED <<app, deco, heap, cur, request, args, kwargs, pc, count, scope,
                   err, signal, log, calls, next_task>>

NextConv == ToPython \/ ToUrl

SpecConv == InitConv /\ [][NextConv]_vars

\* ---------------------------------------------------------------- properties
Reverse(q) == [i \in 1..Len(q) |-> q[Len(q) + 1 - i]]

Occurrences(q, x) == Cardinality({i \in DOMAIN q : q[i] = x})

Conflict == "DatabaseOperationalError"

\* an attempt has ended with an exception, or the invocation has raised it
Failed == pc \in {"caught", "raised"}

\* C1 as stated: when the current transaction is not readonly, a
\* DatabaseOperationalError is never retried: the body has run once and the
\* error is on its way to the caller.
C1_NotReadonlyNeverRetried ==
    (~cur.readonly /\ log.conflicts >= 1) =>
        /\ log.executions = 1
        /\ Failed
        /\ err.kind = Conflict

\* C1 amended: when the current transaction is readonly, a
\* DatabaseOperationalError is never retried, whatever the retry count: the
\* body has run once, there was one attempt, and the error goes to the caller.
C1_ReadonlyNeverRetried ==
    (cur.readonly /\ log.conflicts >= 1) =>
        /\ log.executions = 1
        /\ log.attempts = 1
        /\ Failed
        /\ err.kind = Conflict
        /\ (pc = "raised" => signal.kind = Conflict)

C1_Witness ==
    /\ pc = "raised"
    /\ cur.readonly
    /\ signal.kind = Conflict
    /\ count >= 1
    /\ log.executions = 1

\* C2 as stated: with a readonly transaction, N conflicts and a retry count
\* of at least N, the conflict does not reach the caller.
C2_ReadonlyRetried ==
    (pc = "raised" /\ signal.kind = Conflict /\ cur.readonly) =>
        log.conflicts = app.database_retry + 1

\* C2 amended: with a transaction that is not readonly, a conflict reaches the
\* caller only when database_retry + 1 attempts have ended with one; and when
\* the call returns after N conflicts, it returns the result of the handler,
\* N is at most the retry count and the body has run N + 1 times.
C2_NotReadonlyRetried ==
    /\ (pc = "raised" /\ signal.kind = Conflict /\ ~cur.readonly) =>
            log.conflicts = app.database_retry + 1
    /\ (pc = "returned" /\ ~cur.readonly) =>
            /\ signal = [kind |-> "return", message |-> "result"]
            /\ log.conflicts <= app.database_retry
            /\ log.executions = log.conflicts + 1

C2_Witness ==
    /\ pc = "returned"
    /\ ~cur.readonly
    /\ log.conflicts >= 1
    /\ log.conflicts = app.database_retry
    /\ log.executions = log.conflicts + 1

\* C3: when the wrapped call returns and the resolved readonly flag is false,
\* the transaction has been committed exactly once.
C3_CommittedOnce ==
    (pc = "returned" /\ ~scope.is_readonly) => log.commits = 1

\* C4 as stated: when a read-write call returns, the tasks were submitted in
\* the order they were queued, each once, and the queue is empty.
C4_SubmittedInQueueOrder ==
    (pc = "returned" /\ ~scope.is_readonly) =>
        /\ log.submitted = log.leftover \o log.queued
        /\ cur.tasks = <<>>

\* C4 amended: when a read-write call returns, the queue is empty and every
\* task that was on the queue has been submitted exactly once; the tasks are
\* submitted last queued first: what an attempt has submitted, followed by
\* what is still on the queue read backwards, is the queue the handler body
\* left read backwards; so a call that returns from its first attempt has
\* submitted its tasks in the reverse of the order they were queued.
C4_SubmittedLastQueuedFirst ==
    /\ (pc \in {"drain", "returned"} /\ ~scope.is_readonly) =>
            log.drained \o Reverse(cur.tasks) = Reverse(log.on_queue)
    /\ (pc = "returned" /\ ~scope.is_readonly) =>
            /\ cur.tasks = <<>>
            /\ \A t \in 1..next_task :
                  /\ Occurrences(log.submitted, t)
                        = Occurrences(log.leftover \o log.queued, t)
                  /\ Occurrences(log.submitted, t) <= 1
            /\ (log.attempts = 1 =>
                  log.submitted = Reverse(log.leftover \o log.queued))

C4_Witness ==
    /\ pc = "returned"
    /\ ~scope.is_readonly
    /\ log.attempts = 1
    /\ Len(log.queued) >= 2
    /\ log.submitted = Reverse(log.queued)

C6_WitnessConflict ==
    /\ pc = "raised"
    /\ log.raised.kind = Conflict
    /\ signal.kind = Conflict
    /\ log.attempts = app.database_retry + 1
    /\ log.attempts >= 2

\* the handler body has run in the attempt the state is in
BodyRan == pc \in {"drain", "returned"} \/ (Failed /\ log.executions >= 1)

\* C7: the transaction the handler body ran in has the resolved user, the
\* resolved readonly flag and the merged context.
C7_OpenedWithResolvedValues ==
    BodyRan =>
        /\ log.ran_in.user = scope.transaction_user
        /\ log.ran_in.readonly = scope.is_readonly
        /\ log.ran_in.context = ContextValue(heap, scope.transaction_context)

\* C8: with readonly=None the transaction the handler body ran in is readonly
\* unless the request is a PUT, POST, DELETE or PATCH request; with readonly
\* given, it has the resolved value.
C8_ReadonlyByMethod ==
    BodyRan =>
        log.ran_in.readonly =
            IF deco.readonly = None
            THEN ~(request.present /\ request.method \in WriteMethods)
            ELSE deco.readonly \in {"True", "lambda: True"}

\* the flag the wrapper resolves follows the rule of the docstring, although
\* the transaction does not take it
ResolvedFlagByMethod ==
    scope.transaction = "current" =>
        scope.is_readonly =
            IF deco.readonly = None
            THEN ~(request.present /\ request.method \in WriteMethods)
            ELSE deco.readonly \in {"True", "lambda: True"}

\* C10: a reference among the arguments is materialized while a transaction
\* is open; the handler body receives every reference materialized and
\* every other argument as it was given.
C10_MaterializedInTransaction ==
    /\ \A m \in log.materialized : m.in_transaction
    /\ BodyRan =>
          /\ DOMAIN log.received_args = DOMAIN args
          /\ DOMAIN log.received_kwargs = DOMAIN kwargs
          /\ \A i \in DOMAIN args :
                IF IsProxy(args[i])
                THEN /\ log.received_args[i] = Materialize(args[i])
                     /\ [value |-> args[i], in_transaction |-> TRUE]
                            \in log.materialized
                ELSE log.received_args[i] = args[i]
          /\ \A n \in DOMAIN kwargs :
                IF IsProxy(kwargs[n])
                THEN /\ log.received_kwargs[n] = Materialize(kwargs[n])
                     /\ [value |-> kwargs[n], in_transaction |-> TRUE]
                            \in log.materialized
                ELSE log.received_kwargs[n] = kwargs[n]

\* the segment with the superfluous leading zeros of every number removed
RECURSIVE Canonical(_)
Canonical(text) ==
    IF Len(text) <= 1 THEN text
    ELSE IF text[1] = "0" /\ IsDigit(text[2]) THEN Canonical(Tail(text))
    ELSE IF text[1] = "," THEN <<",">> \o Canonical(Tail(text))
    ELSE LET k == CHOOSE j \in 1..Len(text) :
                      /\ \A l \in 1..j : IsDigit(text[l])
                      /\ (j = Len(text) \/ text[j + 1] = ",")
         IN  SubSeq(text, 1, k) \o Canonical(SubSeq(text, k + 1, Len(text)))

Commas(text) == Cardinality({i \in DOMAIN text : text[i] = ","})

C10_Witness ==
    /\ pc = "returned"
    /\ Len(args) = 2
    /\ log.received_args[1] = Plain(7)
    /\ log.received_args[2].t = "records"
    /\ log.received_kwargs["user"].t = "record"
    /\ Cardinality(log.materialized) = 2

\* the invocation has returned or raised
Exited == pc \in {"returned", "raised"}

C12_SubmittedAfterCommit ==
    log.drained # <<>> => log.attempt_commits >= 1

\* C12 amended: a task is submitted only after the handler body of the same
\* attempt has returned without an error, never in an attempt whose handler
\* failed and never while the with block is still open; when the attempt commits (the
\* transaction has a cursor and the resolved flag is not readonly) the commit
\* has been issued before the first task is submitted.
C12_SubmittedAfterHandlerReturned ==
    /\ log.drained # <<>> =>
            /\ log.executions >= 1
            /\ log.raised = NoError
            /\ pc # "open"
    /\ (log.drained # <<>> /\ cur.has_cursor /\ ~scope.is_readonly) =>
            log.attempt_commits = 1
    /\ log.raised # NoError => log.drained = <<>>
    /\ pc = "open" => log.drained = <<>>

C12_Witness ==
    /\ pc = "returned"
    /\ Len(log.drained) = 2
    /\ log.attempt_commits = 1
    /\ ~scope.is_readonly

\* the keys of the dict built from the request
RequestKeys == {"remote_addr", "http_host", "scheme", "is_secure"}

\* the entry holds a value that only a request provides
FromSomeRequest(entry) ==
    \/ "is_secure" \in DOMAIN entry
    \/ \E k \in (DOMAIN entry) \cap {"remote_addr", "http_host", "scheme"} :
          \E r \in Requests \ {NoRequest} : entry[k] = r[k]

\* C13 as stated: at the entry of the with block the merged context has, with
\* a request, a _request entry whose four fields are those of the request,
\* and without a request a _request entry that is absent or carries no field
\* taken from a request.
C13_RequestEntry ==
    pc = "open" =>
        LET context == ContextValue(heap, scope.transaction_context)
        IN  IF request.present
            THEN /\ "_request" \in DOMAIN context
                 /\ \A k \in RequestKeys :
                        /\ k \in DOMAIN context["_request"]
                        /\ context["_request"][k] = RequestFields(request)[k]
            ELSE "_request" \in DOMAIN context =>
                    ~FromSomeRequest(context["_request"])

\* C14: the loop of retry_transaction is bounded by the retry count: the
\* body runs at most database_retry + 1 times, every continuation of the loop
\* uses up one of the retries, an invocation that returned hands back the
\* result of the body, and an invocation all of whose attempts ended with a
\* conflict raises that conflict to the caller.
C14_BoundedByRetryCount ==
    /\ log.executions <= app.database_retry + 1
    /\ log.attempts <= app.database_retry + 1
    /\ count \in 0..app.database_retry
    /\ pc # "idle" =>
            log.attempts =
                (app.database_retry - count) + (IF pc = "attempt" THEN 0 ELSE 1)
    /\ pc = "returned" => signal = [kind |-> "return", message |-> "result"]
    /\ pc = "raised" => signal = err /\ signal.kind \notin {"none", "ok", "return"}
    /\ (pc = "raised" /\ log.conflicts = log.attempts) =>
            /\ signal.kind = Conflict
            /\ (count = 0 \/ cur.readonly)

C14_Witness ==
    /\ pc = "raised"
    /\ app.database_retry = MaxRetry
    /\ log.executions = MaxRetry + 1
    /\ log.conflicts = MaxRetry + 1
    /\ count = 0
    /\ signal.kind = Conflict

\* the steps of an invocation that was started are taken: the handler body
\* and run_task come back
SpecFair ==
    /\ Spec
    /\ WF_vars(Prepare)
    /\ WF_vars(\E outcome \in HandlerOutcomes, k \in 0..MaxTasks :
                  RunHandler(outcome, k))
    /\ WF_vars(\E outcome \in TaskOutcomes : Drain(outcome))
    /\ WF_vars(Return)
    /\ WF_vars(Catch)

\* an invocation that was started returns or raises
InvocationEnds == (pc = "attempt") ~> Exited

\* C15 as stated: once run_task has failed in an invocation whose handler
\* returned and whose transaction was committed, the handler body is not
\* executed again and no further commit is issued in that invocation.
C15_DrainNotRetried ==
    (log.task_failed /\ log.commits >= 1) =>
        /\ log.reruns = 0
        /\ log.recommits = 0

C17_CommitOnlyAfterSuccessOfReadWrite ==
    /\ (scope.is_readonly \/ log.raised # NoError) => log.attempt_commits = 0
    /\ log.attempt_commits <= 1
    /\ pc = "open" => log.attempt_commits = 0

C17_Witness ==
    /\ pc = "raised"
    /\ log.raised.kind = "KeyError"
    /\ ~scope.is_readonly
    /\ cur.has_cursor
    /\ log.commits = 0

C17_WitnessReadonly ==
    /\ pc = "returned"
    /\ scope.is_readonly
    /\ cur.has_cursor
    /\ log.executions = 1
    /\ log.commits = 0

\* C18 as stated: the dict the context callback returns, the context given
\* to the decorator and the _request dict nested in it are, at every moment,
\* what they were when the decorator was applied.
C18_ConfigurationUnchanged ==
    /\ heap["cb"] = CallbackDict
    /\ heap["ctx"] = (IF deco.context = "nested"
                      THEN [company |-> "1", _request |-> "ctxreq"]
                      ELSE [company |-> "1"])
    /\ heap["ctxreq"] = [remote_addr |-> "spoofed"]

\* the handler body of the attempt has raised a domain error
DomainErrorRaised ==
    /\ pc \in {"caught", "raised"}
    /\ log.raised.kind \in DomainErrors

\* C19: after the handler body raised a domain error the only step of the
\* invocation is to raise BadRequest to the caller: no further attempt is
\* started, the body is not executed again, nothing is committed and no task
\* is submitted, whatever the retry count left and the readonly flag; the
\* next thing that can happen is a new invocation.
C19_DomainErrorFinal ==
    [][DomainErrorRaised =>
          \/ calls' = calls + 1
          \/ /\ pc' = "raised"
             /\ signal'.kind = "BadRequest"
             /\ log' = log
             /\ cur' = cur
             /\ count' = count]_vars

C19_Witness ==
    /\ pc = "raised"
    /\ log.raised.kind = "ConcurrencyException"
    /\ signal.kind = "BadRequest"
    /\ count >= 1
    /\ ~cur.readonly
    /\ log.executions = 1
    /\ cur.tasks # <<>>
    /\ log.submitted = <<>>

====
